---- MODULE Spec2Model ----
(***************************************************************************)
(* Model of the auction server (server.js): a JSON file holding            *)
(* { items: [...] }, re-read on every request and rewritten in full after  *)
(* every mutation, and the four API handlers that run against it.          *)
(*                                                                         *)
(* Each await of a handler is a separate step, so requests interleave the  *)
(* way they do on the Node event loop: a handler's synchronous code        *)
(* between two awaits is one atomic step.  fs.readFile and fs.writeFile    *)
(* are each taken as one atomic read or replacement of the whole file.     *)
(*                                                                         *)
(* Strings that the code trims are sequences of one-character strings, so  *)
(* that trimming is computed and not assumed.                              *)
(*                                                                         *)
(* Two more programs of the repository are modelled, each with its own     *)
(* specification over the same variables: the spreadsheet sync             *)
(* (data/sync-from-excel.js, SpecSync), which replaces the file, and the   *)
(* front end (unnamed/part_000, SpecPage and SpecPageFair): its click      *)
(* handler, load() and fetchWithRetry.                                     *)
(***************************************************************************)
EXTENDS Integers, Sequences, FiniteSets, TLC

VARIABLES disk, req, clock, started, ALLOW_ADD, uuids, sync, page

vars == <<disk, req, clock, started, ALLOW_ADD, uuids, sync, page>>

\* what the server's steps leave alone: the spreadsheet sync and the browser
others == <<sync, page>>

----------------------------------------------------------------------------
(* Bounds of the model *)

NumReq == 2            \* request slots: requests that can be in flight together
MaxRequests == 2       \* requests started in one behaviour
MaxClock == 3          \* last value Date.now() takes
MaxRows == 2           \* rows of the first sheet of the spreadsheet
MaxRetries == 5        \* largest retries argument of fetchWithRetry called alone
MaxLoads == 2          \* load() calls from page boot and the Refresh button
MaxClicks == 1         \* clicks on a Bid button

(* Program constants *)
BID_STEP == 100000
InitialDelayMs == 2000     \* default delayMs of fetchWithRetry
MaxDelayMs == 10000        \* cap of the delay
LoadRetries == 3           \* retries that load() asks for

Reqs == 1..NumReq

----------------------------------------------------------------------------
(* Request-body values: a JSON field is absent (undefined/null) or a string *)

Absent == [given |-> FALSE, text |-> <<>>]
Str(s) == [given |-> TRUE, text |-> s]

\* a ?? b
Coalesce(a, b) == IF a.given THEN a ELSE b

RECURSIVE TrimLeft(_)
TrimLeft(s) ==
  IF s = <<>> THEN <<>>
  ELSE IF Head(s) = " " THEN TrimLeft(Tail(s)) ELSE s

RECURSIVE TrimRight(_)
TrimRight(s) ==
  IF s = <<>> THEN <<>>
  ELSE IF s[Len(s)] = " " THEN TrimRight(SubSeq(s, 1, Len(s) - 1)) ELSE s

\* String.prototype.trim
Trim(s) == TrimRight(TrimLeft(s))

\* (name ?? user ?? '').toString().trim()
BidderNameOf(name, user) == Trim(Coalesce(Coalesce(name, user), Str(<<>>)).text)

\* (bidderId ?? '').toString().trim()
BidderIDOf(bidderId) == Trim(Coalesce(bidderId, Str(<<>>)).text)

\* if (!bidderName || !bidderID) return 400
IdentityMissing_NoTrim(name, bidderId, user) ==
  \/ Coalesce(Coalesce(name, user), Str(<<>>)).text = <<>>
  \/ Coalesce(bidderId, Str(<<>>)).text = <<>>

IdentityMissing(name, bidderId, user) ==
  \/ BidderNameOf(name, user) = <<>>
  \/ BidderIDOf(bidderId) = <<>>

----------------------------------------------------------------------------
(* The backing file *)

NoItems == <<>>

MissingFile == [kind |-> "missing", items |-> NoItems]
CorruptFile == [kind |-> "corrupt", items |-> NoItems]   \* not valid JSON
NoArrayFile == [kind |-> "noitems", items |-> NoItems]   \* JSON without items[]
Doc(items)  == [kind |-> "ok", items |-> items]

\* What loadDB does with the outcome of readFile, ENOENT apart (that branch
\* also writes: actions LoadMissing and LoadCreateFile).  A file that is not
\* JSON, or JSON without an items array, gives { items: [] }; a read error
\* other than ENOENT is rethrown.
LoadDB_NoCatch(file) ==
  [threw |-> file.kind \in {"unreadable", "corrupt"},
   items |-> IF file.kind = "ok" THEN file.items ELSE NoItems]

LoadDB(file) ==
  [threw |-> file.kind = "unreadable",
   items |-> IF file.kind = "ok" THEN file.items ELSE NoItems]

\* the items a request reading the file now would get
Stored == LoadDB(disk).items

\* db.items.find(i => i.id === id): index of the first match, 0 if none
RECURSIVE FindFrom(_, _, _)
FindFrom(items, id, k) ==
  IF k > Len(items) THEN 0
  ELSE IF items[k].id = id THEN k ELSE FindFrom(items, id, k + 1)

Find(items, id) == FindFrom(items, id, 1)

\* item.status && item.status !== 'Available'
NotBiddable_HoldOnly(item) == item.status = "Hold"

NotBiddable(item) == item.status # "" /\ item.status # "Available"

\* The mutation of the bid handler on the found item (server.js 276-287)
PlaceBid_NoAppend(item, bidderName, bidderID, now) ==
  [item EXCEPT !.currentPrice = item.currentPrice + BID_STEP,
               !.lastBidder = {[name |-> bidderName, bidderId |-> bidderID]}]

PlaceBid_Replace(item, bidderName, bidderID, now) ==
  LET price == item.currentPrice + BID_STEP
  IN [item EXCEPT !.currentPrice = price,
                  !.bids = <<[name |-> bidderName, bidderId |-> bidderID,
                              amount |-> price, time |-> now]>>,
                  !.lastBidder = {[name |-> bidderName, bidderId |-> bidderID]}]

PlaceBid_Reset(item, bidderName, bidderID, now) ==
  LET price == item.originalPrice + BID_STEP
  IN [item EXCEPT !.currentPrice = price,
                  !.bids = Append(item.bids,
                                  [name |-> bidderName, bidderId |-> bidderID,
                                   amount |-> price, time |-> now]),
                  !.lastBidder = {[name |-> bidderName, bidderId |-> bidderID]}]

PlaceBid_OldAmount(item, bidderName, bidderID, now) ==
  LET price == item.currentPrice + BID_STEP
  IN [item EXCEPT !.currentPrice = price,
                  !.bids = Append(item.bids,
                                  [name |-> bidderName, bidderId |-> bidderID,
                                   amount |-> item.currentPrice, time |-> now]),
                  !.lastBidder = {[name |-> bidderName, bidderId |-> bidderID]}]

PlaceBid_Down(item, bidderName, bidderID, now) ==
  LET price == item.currentPrice - BID_STEP
  IN [item EXCEPT !.currentPrice = price,
                  !.bids = Append(item.bids,
                                  [name |-> bidderName, bidderId |-> bidderID,
                                   amount |-> price, time |-> now]),
                  !.lastBidder = {[name |-> bidderName, bidderId |-> bidderID]}]

PlaceBid_KeepLastBidder(item, bidderName, bidderID, now) ==
  LET price == item.currentPrice + BID_STEP
  IN [item EXCEPT !.currentPrice = price,
                  !.bids = Append(item.bids,
                                  [name |-> bidderName, bidderId |-> bidderID,
                                   amount |-> price, time |-> now]),
                  !.lastBidder = IF item.lastBidder = {}
                                 THEN {[name |-> bidderName,
                                        bidderId |-> bidderID]}
                                 ELSE item.lastBidder]

PlaceBid_AmountFromOriginal(item, bidderName, bidderID, now) ==
  LET price == item.currentPrice + BID_STEP
  IN [item EXCEPT !.currentPrice = price,
                  !.bids = Append(item.bids,
                                  [name |-> bidderName, bidderId |-> bidderID,
                                   amount |-> item.originalPrice + BID_STEP,
                                   time |-> now]),
                  !.lastBidder = {[name |-> bidderName, bidderId |-> bidderID]}]

PlaceBid(item, bidderName, bidderID, now) ==
  LET price == item.currentPrice + BID_STEP
  IN [item EXCEPT !.currentPrice = price,
                  !.bids = Append(item.bids,
                                  [name |-> bidderName, bidderId |-> bidderID,
                                   amount |-> price, time |-> now]),
                  !.lastBidder = {[name |-> bidderName, bidderId |-> bidderID]}]

\* [...items].sort((a, b) => Number(b.createdAt||0) - Number(a.createdAt||0))
\* Array.prototype.sort is stable: equal keys keep their stored order.
RECURSIVE InsertDesc(_, _)
InsertDesc(sorted, x) ==
  IF sorted = <<>> THEN <<x>>
  ELSE IF Head(sorted).createdAt >= x.createdAt
       THEN <<Head(sorted)>> \o InsertDesc(Tail(sorted), x)
       ELSE <<x>> \o sorted

RECURSIVE SortFrom(_, _, _)
SortFrom(items, k, acc) ==
  IF k > Len(items) THEN acc
  ELSE SortFrom(items, k + 1, InsertDesc(acc, items[k]))

sortByCreatedDesc(items) == SortFrom(items, 1, <<>>)

----------------------------------------------------------------------------
(* Creation inputs *)

\* Number(originalPrice) || 0, the field being absent (default 0), a number,
\* or something Number() maps to NaN
NumAbsent == [kind |-> "absent", val |-> 0]
NumNaN    == [kind |-> "nan", val |-> 0]
Num(n)    == [kind |-> "num", val |-> n]

NumberOr0(v) == IF v.kind = "num" THEN v.val ELSE 0

StatusOf_NoDefault(status) == IF status.given THEN status.text ELSE ""

\* status = 'Available' default of the destructuring, then status || 'Available'
StatusOf(status) ==
  IF ~status.given \/ status.text = "" THEN "Available" ELSE status.text

\* the item built by app.post('/api/items') (server.js 238-249)
NewItem(id, name, originalPrice, status, now) ==
  [id |-> id,
   name |-> Trim(name.text),
   originalPrice |-> NumberOr0(originalPrice),
   currentPrice |-> NumberOr0(originalPrice),
   status |-> StatusOf(status),
   bids |-> <<>>,
   lastBidder |-> {},
   createdAt |-> now]

\* !name || String(name).trim() === ''
NameMissing(name) == ~name.given \/ Trim(name.text) = <<>>

----------------------------------------------------------------------------
(* Requests *)

NoInput == [name |-> Absent, bidderId |-> Absent, user |-> Absent]

Idle ==
  [pc |-> "idle", op |-> "none", id |-> "", input |-> NoInput,
   newItem |-> <<>>, bidderName |-> <<>>, bidderID |-> <<>>,
   loaded |-> NoItems, db |-> NoItems,
   reads |-> 0, writes |-> 0, code |-> 0, body |-> NoItems]

\* res.status(code).json(body): the request is finished and the handler's
\* locals are gone; what stays is what the client saw
Respond(r, code, body) ==
  [r EXCEPT !.pc = "done", !.code = code, !.body = body,
            !.newItem = <<>>, !.bidderName = <<>>, !.bidderID = <<>>,
            !.loaded = NoItems, !.db = NoItems]

Free(r) == req[r].pc \in {"idle", "done"}

\* Date.now(): the clock does not go back; two calls may see the same value
Now == {clock} \cup (IF clock < MaxClock THEN {clock + 1} ELSE {})

----------------------------------------------------------------------------
(* Initial states: the file as found at startup *)

OrigPrice(id) == IF id = "a1" THEN 500000 ELSE 0

\* items enter the store with currentPrice = originalPrice and no bids
Seed(id, status, createdAt) ==
  [id |-> id,
   name |-> <<"i">>,
   originalPrice |-> OrigPrice(id),
   currentPrice |-> OrigPrice(id),
   status |-> status,
   bids |-> <<>>,
   lastBidder |-> {},
   createdAt |-> createdAt]

InitDocs ==
  {MissingFile, CorruptFile, NoArrayFile}
  \cup { Doc(<<Seed("a1", s1, 1), Seed("a2", "Available", 2)>>) :
           s1 \in {"Available", "", "Hold", "Sold out"} }
  \cup { Doc(<<Seed("a1", "Available", 2), Seed("a2", "Available", 2)>>) }

\* the sync script is not run, no page is open
SyncOff == [pc |-> "off", rows |-> <<>>]
PageOff == [pc |-> "off"]

Init ==
  /\ disk \in InitDocs
  /\ req = [r \in Reqs |-> Idle]
  /\ clock = 2
  /\ started = 0
  /\ ALLOW_ADD \in BOOLEAN
  /\ uuids = 0
  /\ sync = SyncOff
  /\ page = PageOff

----------------------------------------------------------------------------
(* Inputs the requests are drawn from *)

\* bodies of PATCH /api/items/:id/bid
BidBody(name, bidderId, user) == [name |-> name, bidderId |-> bidderId, user |-> user]

BidBodies ==
  { BidBody(Str(<<"s">>), Str(<<"u", " ">>), Absent),
    BidBody(Absent, Str(<<"w">>), Str(<<" ", "m">>)),
    BidBody(Str(<<" ">>), Str(<<"u">>), Str(<<"m">>)),
    BidBody(Str(<<"s">>), Str(<<" ">>), Absent),
    BidBody(Absent, Absent, Absent) }

\* bodies of POST /api/items
CreateBody(name, originalPrice, status) ==
  [name |-> name, originalPrice |-> originalPrice, status |-> status]

CreateBodies ==
  { CreateBody(Absent, Num(500000), Absent),
    CreateBody(Str(<<" ">>), Num(500000), Absent),
    CreateBody(Str(<<"v", " ">>), Num(500000), Absent),
    CreateBody(Str(<<"v">>), NumNaN, Str("Hold")) }

\* crypto.randomUUID(): a value no earlier call returned
UuidNames == <<"n1", "n2", "n3", "n4", "n5", "n6">>
randomUUID(n) == UuidNames[n + 1]

\* ids that requests name: a stored one, one nobody has, and the created ones
PathIds == {"a1", "zz"} \cup {UuidNames[k] : k \in 1..uuids}

\* A request arrives.  Slots are interchangeable, so it takes the first free one.
Start(r, rec) ==
  /\ Free(r)
  /\ \A q \in Reqs : q < r => ~Free(q)
  /\ started' = started + 1
  /\ req' = [req EXCEPT ![r] = rec]
  /\ UNCHANGED others

----------------------------------------------------------------------------
(* The handlers up to their first await *)

\* GET /api/items  (server.js 206-208)
BeginList(r) ==
  /\ Start(r, [Idle EXCEPT !.pc = "load", !.op = "list"])
  /\ UNCHANGED <<disk, clock, ALLOW_ADD, uuids>>

\* GET /api/items/:id  (server.js 214-216)
BeginGet(r, id) ==
  /\ Start(r, [Idle EXCEPT !.pc = "load", !.op = "get", !.id = id])
  /\ UNCHANGED <<disk, clock, ALLOW_ADD, uuids>>

\* POST /api/items  (server.js 224-251)
BeginCreate_NoGate(r, name, originalPrice, status) ==
  LET base == [Idle EXCEPT !.op = "create",
                           !.input = CreateBody(name, originalPrice, status)]
  IN
  IF NameMissing(name) THEN
    /\ Start(r, Respond(base, 400, NoItems))
    /\ UNCHANGED <<disk, clock, ALLOW_ADD, uuids>>
  ELSE
    /\ uuids < Len(UuidNames)
    /\ \E now \in Now :
         /\ clock' = now
         /\ Start(r, [base EXCEPT
                        !.pc = "load",
                        !.newItem = <<NewItem(randomUUID(uuids), name,
                                              originalPrice, status, now)>>])
    /\ uuids' = uuids + 1
    /\ UNCHANGED <<disk, ALLOW_ADD>>

BeginCreate(r, name, originalPrice, status) ==
  LET base == [Idle EXCEPT !.op = "create",
                           !.input = CreateBody(name, originalPrice, status)]
  IN
  IF ~ALLOW_ADD THEN
    /\ Start(r, Respond(base, 403, NoItems))
    /\ UNCHANGED <<disk, clock, ALLOW_ADD, uuids>>
  ELSE IF NameMissing(name) THEN
    /\ Start(r, Respond(base, 400, NoItems))
    /\ UNCHANGED <<disk, clock, ALLOW_ADD, uuids>>
  ELSE
    /\ uuids < Len(UuidNames)
    /\ \E now \in Now :
         /\ clock' = now
         /\ Start(r, [base EXCEPT
                        !.pc = "load",
                        !.newItem = <<NewItem(randomUUID(uuids), name,
                                              originalPrice, status, now)>>])
    /\ uuids' = uuids + 1
    /\ UNCHANGED <<disk, ALLOW_ADD>>

\* PATCH /api/items/:id/bid  (server.js 259-269)
BeginBid(r, id, name, bidderId, user) ==
  LET base == [Idle EXCEPT !.op = "bid", !.id = id,
                           !.input = [name |-> name, bidderId |-> bidderId,
                                      user |-> user]]
  IN
  /\ IF IdentityMissing(name, bidderId, user)
     THEN Start(r, Respond(base, 400, NoItems))
     ELSE Start(r, [base EXCEPT !.pc = "load",
                                !.bidderName = BidderNameOf(name, user),
                                !.bidderID = BidderIDOf(bidderId)])
  /\ UNCHANGED <<disk, clock, ALLOW_ADD, uuids>>

----------------------------------------------------------------------------
(* The handlers from the return of loadDB on.  The code between the return  *)
(* of loadDB and the next await (or the response) runs without interruption.*)

\* res.json(sortByCreatedDesc(db.items))  (server.js 209)
ListRest(rq) == Respond(rq, 200, sortByCreatedDesc(rq.db))

\* server.js 217-219
GetRest(rq) ==
  LET k == Find(rq.db, rq.id)
  IN IF k = 0 THEN Respond(rq, 404, NoItems) ELSE Respond(rq, 200, <<rq.db[k]>>)

CreateRest_Overwrite(rq) ==
  [rq EXCEPT !.db = rq.newItem, !.body = rq.newItem, !.pc = "save"]

\* db.items.push(item); saveDB(db) is called  (server.js 252-253)
CreateRest(rq) ==
  [rq EXCEPT !.db = @ \o rq.newItem, !.body = rq.newItem, !.pc = "save"]

\* server.js 270-289: find, the two refusals, the mutation, saveDB is called
BidRest(rq, now) ==
  LET k == Find(rq.db, rq.id)
  IN IF k = 0 THEN Respond(rq, 404, NoItems)
     ELSE IF NotBiddable(rq.db[k]) THEN Respond(rq, 400, NoItems)
     ELSE LET item == PlaceBid(rq.db[k], rq.bidderName, rq.bidderID, now)
          IN [rq EXCEPT !.db[k] = item, !.body = <<item>>, !.pc = "save"]

Rest(rq, now) ==
  CASE rq.op = "list"   -> ListRest(rq)
    [] rq.op = "get"    -> GetRest(rq)
    [] rq.op = "create" -> CreateRest(rq)
    [] rq.op = "bid"    -> BidRest(rq, now)

\* loadDB has returned items to request r; Date.now() of a bid is the clock
\* as it stands (the clock is advanced where items are created, the only
\* place where a timestamp decides anything)
Continue(r, rq) ==
  /\ req' = [req EXCEPT ![r] = Rest(rq, clock)]
  /\ UNCHANGED clock

----------------------------------------------------------------------------
(* loadDB and saveDB  (server.js 149-173) *)

\* readFile succeeded: parse, or fall back to { items: [] }
Load(r) ==
  /\ req[r].pc = "load"
  /\ disk.kind # "missing"
  /\ LET db == LoadDB(disk)
         rq == [req[r] EXCEPT !.reads = @ + 1]
     IN IF db.threw
        THEN \* catch (err) { next(err) }: the error handler answers 500
             /\ req' = [req EXCEPT ![r] = Respond(rq, 500, NoItems)]
             /\ UNCHANGED clock
        ELSE Continue(r, [rq EXCEPT !.loaded = db.items, !.db = db.items])
  /\ UNCHANGED <<disk, started, ALLOW_ADD, uuids, others>>

\* readFile failed with ENOENT: writeFile of the empty document is pending
LoadMissing(r) ==
  /\ req[r].pc = "load"
  /\ disk.kind = "missing"
  /\ req' = [req EXCEPT ![r].reads = @ + 1, ![r].pc = "enoent"]
  /\ UNCHANGED <<disk, clock, started, ALLOW_ADD, uuids, others>>

\* that writeFile lands, whatever the file holds by now; loadDB returns empty
LoadCreateFile(r) ==
  /\ req[r].pc = "enoent"
  /\ disk' = Doc(NoItems)
  /\ Continue(r, [req[r] EXCEPT !.loaded = NoItems,
                                !.db = NoItems,
                                !.writes = @ + 1])
  /\ UNCHANGED <<started, ALLOW_ADD, uuids, others>>

\* saveDB(db) lands and the handler answers res.json(item)
Save(r) ==
  /\ req[r].pc = "save"
  /\ disk' = Doc(req[r].db)
  /\ req' = [req EXCEPT ![r] = Respond([@ EXCEPT !.writes = @ + 1], 200, @.body)]
  /\ UNCHANGED <<clock, started, ALLOW_ADD, uuids, others>>

----------------------------------------------------------------------------

Next ==
  \E r \in Reqs :
    \/ started < MaxRequests /\ BeginList(r)
    \/ started < MaxRequests /\ \E id \in PathIds : BeginGet(r, id)
    \/ started < MaxRequests /\ \E b \in CreateBodies :
         BeginCreate(r, b.name, b.originalPrice, b.status)
    \/ started < MaxRequests /\ \E id \in PathIds, b \in BidBodies :
         BeginBid(r, id, b.name, b.bidderId, b.user)
    \/ Load(r)
    \/ LoadMissing(r)
    \/ LoadCreateFile(r)
    \/ Save(r)

Spec == Init /\ [][Next]_vars

----------------------------------------------------------------------------
(* The spreadsheet sync  (data/sync-from-excel.js)                          *)
(*                                                                          *)
(* A row is the key map r built from a sheet row: the cell under each       *)
(* normalised header, the empty text where the sheet has no such cell       *)
(* (sheet_to_json is called with defval "").  Cell texts are sequences of   *)
(* tokens, a blank being the token " ".  Of the header aliases, the ones    *)
(* kept are "name" / "item name" and "originalprice" / "price".             *)

VALID_STATUS == {<<"Available">>, <<"Hold">>, <<"Sold out">>}

\* .replace(/[, ]/g, "")
RECURSIVE StripSeparators(_)
StripSeparators(text) ==
  IF text = <<>> THEN <<>>
  ELSE IF Head(text) \in {",", " "} THEN StripSeparators(Tail(text))
  ELSE <<Head(text)>> \o StripSeparators(Tail(text))

DigitValue(c) == CASE c = "0" -> 0 [] c = "1" -> 1 [] c = "5" -> 5

\* Number() of a text of digits; Number("") is 0
RECURSIVE Decimal(_)
Decimal(text) ==
  IF text = <<>> THEN 0
  ELSE 10 * Decimal(SubSeq(text, 1, Len(text) - 1)) + DigitValue(text[Len(text)])

\* Number(String(v ?? "").replace(/[, ]/g, "")), 0 when that is not finite
toNumber(v) ==
  LET text == StripSeparators(IF v.given THEN v.text ELSE <<>>)
  IN IF \A i \in 1..Len(text) : text[i] \in {"0", "1", "5"}
     THEN Decimal(text) ELSE 0

\* the first of the cells that is not blank, undefined when there is none
RECURSIVE pick(_)
pick(cells) ==
  IF cells = <<>> THEN Absent
  ELSE IF Trim(Head(cells)) # <<>> THEN Str(Head(cells))
  ELSE pick(Tail(cells))

\* String(v || "").trim()
TrimmedOrEmpty(v) == IF v.given THEN Trim(v.text) ELSE <<>>

SyncStatus_AsGiven(statusRaw) == statusRaw

\* VALID_STATUS.includes(statusRaw) ? statusRaw : "Available"
SyncStatus(statusRaw) ==
  IF statusRaw \in VALID_STATUS THEN statusRaw ELSE <<"Available">>

\* the callback of rowsRaw.map for one row: the item, or nothing when the row
\* has no name; n is the number of ids generated so far
SyncRow(r, n, now) ==
  LET given         == TrimmedOrEmpty(pick(<<r.id>>))
      id            == IF given # <<>> THEN given
                       ELSE <<"item-", randomUUID(n)>>
      name          == TrimmedOrEmpty(pick(<<r.name, r.itemName>>))
      originalPrice == toNumber(pick(<<r.originalPrice, r.price>>))
      currentPriceRaw == toNumber(pick(<<r.currentPrice>>))
      currentPrice  == IF currentPriceRaw # 0 THEN currentPriceRaw
                       ELSE originalPrice
      status        == SyncStatus(TrimmedOrEmpty(pick(<<r.status>>)))
  IN [used  |-> IF given # <<>> THEN 0 ELSE 1,
      items |-> IF name = <<>> THEN <<>>
                ELSE << [id |-> id,
                         name |-> name,
                         originalPrice |-> originalPrice,
                         currentPrice |-> currentPrice,
                         status |-> status,
                         bids |-> <<>>,
                         lastBidder |-> {},
                         createdAt |-> now] >>]

\* rowsRaw.map(...).filter(Boolean)
RECURSIVE SyncRows(_, _, _)
SyncRows(rows, n, now) ==
  IF rows = <<>> THEN [used |-> 0, items |-> <<>>]
  ELSE LET first == SyncRow(Head(rows), n, now)
           rest  == SyncRows(Tail(rows), n + first.used, now)
       IN [used |-> first.used + rest.used, items |-> first.items \o rest.items]

\* main(): the rows are mapped and the file is replaced by the result
SyncMain ==
  /\ sync.pc = "start"
  /\ LET out == SyncRows(sync.rows, uuids, clock)
     IN /\ disk' = Doc(out.items)
        /\ uuids' = uuids + out.used
  /\ sync' = [sync EXCEPT !.pc = "done"]
  /\ UNCHANGED <<req, clock, started, ALLOW_ADD, page>>

Row(id, name, itemName, originalPrice, price, currentPrice, status) ==
  [id |-> id, name |-> name, itemName |-> itemName,
   originalPrice |-> originalPrice, price |-> price,
   currentPrice |-> currentPrice, status |-> status]

\* rows the sheets are made of
Rows ==
  { Row(<<"x1">>, <<"i">>, <<>>, <<"5", "0", "0">>, <<>>, <<>>, <<"Hold">>),
    Row(<<>>, <<" ">>, <<" ", "v", " ">>, <<>>, <<"5">>, <<"1", "0">>, <<"hold">>),
    Row(<<"x2">>, <<" ">>, <<>>, <<"5">>, <<>>, <<>>, <<"Available">>),
    Row(<<" ">>, <<"i">>, <<>>, <<"x">>, <<>>, <<"0">>, <<" ", "Sold out", " ">>),
    Row(<<" ", "x3">>, <<"w">>, <<>>, <<"1", ",", "5", " ", "0">>, <<>>, <<"x">>, <<>>),
    Row(<<>>, <<>>, <<>>, <<>>, <<>>, <<>>, <<>>) }

Sheets ==
  UNION { [1..n -> Rows] : n \in 0..MaxRows }

\* the file as the sync finds it: none, unreadable as JSON, or a catalogue
\* with bids on it
SyncDocs ==
  { MissingFile, CorruptFile,
    Doc(<<PlaceBid(Seed("a1", "Available", 1), <<"s">>, <<"u">>, 2),
          Seed("a2", "Hold", 2)>>) }

InitSync ==
  /\ disk \in SyncDocs
  /\ sync \in [pc : {"start"}, rows : Sheets]
  /\ req = [r \in Reqs |-> Idle]
  /\ clock = 2
  /\ started = 0
  /\ ALLOW_ADD = FALSE
  /\ uuids = 0
  /\ page = PageOff

NextSync == SyncMain

SpecSync == InitSync /\ [][NextSync]_vars

----------------------------------------------------------------------------
(* The front end  (unnamed/part_000, the variant with retries)              *)
(*                                                                          *)
(* Every await is a step.  What the network does to a request (a response,  *)
(* a failure) is a step of the environment; the abort timer of fetchJSON    *)
(* and the sleep of fetchWithRetry are timers of the page.  The fetch of    *)
(* /health in load() is sent without a signal, so no timer ends it.         *)
(* One click handler runs at a time; Refresh is clicked between loads.      *)

\* how an attempt of fetchJSON ends: name and status of the error thrown, and
\* whether its message matches /abort|timeout|network/; NoError is res.ok
NoError == [name |-> "", status |-> 200, keyword |-> FALSE]
HttpError(status, keyword) ==
  [name |-> "Error", status |-> status, keyword |-> keyword]
NetworkError(keyword) == [name |-> "TypeError", status |-> 0, keyword |-> keyword]
AbortError == [name |-> "AbortError", status |-> 0, keyword |-> TRUE]

isTransient(err) ==
  \/ err.name = "AbortError"
  \/ err.status \in {429, 502, 503, 504}
  \/ err.keyword

\* ends of a GET /api/items that the network produces
Outcomes ==
  { NoError, HttpError(404, FALSE), HttpError(429, FALSE),
    HttpError(500, TRUE), NetworkError(TRUE), NetworkError(FALSE) }

\* what a successful list holds for the card: no item, or the item's status
Lists == {"none", "Available", "Hold"}

\* ends of a PATCH bid that the network produces
BidOutcomes ==
  { NoError, HttpError(400, FALSE), HttpError(404, FALSE),
    HttpError(503, FALSE), NetworkError(FALSE) }

\* whether the server stored the bid of a PATCH that ended with e: it did
\* when it answered 200, it did not when it answered 400, 404 or 500 itself,
\* and either is possible when the answer came from a proxy or never came
Served(e) ==
  IF e = NoError THEN {TRUE}
  ELSE IF e.name = "Error" /\ e.status \in {400, 404, 500} THEN {FALSE}
  ELSE BOOLEAN

Min(a, b) == IF a <= b THEN a ELSE b

\* one call of load() or of fetchWithRetry
FetcherOff ==
  [pc |-> "off", arg |-> 0, retries |-> 0, delayMs |-> 0, requests |-> 0,
   delays |-> <<>>, err |-> NoError]

\* fetchWithRetry(path, options, retries) is called: the first fetchJSON is sent
CallFetchWithRetry(retries) ==
  [pc |-> "fetch", arg |-> retries, retries |-> retries,
   delayMs |-> InitialDelayMs, requests |-> 1, delays |-> <<>>, err |-> NoError]

AfterFailure_Always(ft, e) ==
  IF ft.retries > 0
  THEN [ft EXCEPT !.pc = "sleep", !.err = e,
                  !.delays = Append(@, ft.delayMs)]
  ELSE [ft EXCEPT !.pc = "failed", !.err = e]

\* the catch block of fetchWithRetry: sleep(delayMs) and retry, or throw e
AfterFailure(ft, e) ==
  IF ft.retries > 0 /\ isTransient(e)
  THEN [ft EXCEPT !.pc = "sleep", !.err = e,
                  !.delays = Append(@, ft.delayMs)]
  ELSE [ft EXCEPT !.pc = "failed", !.err = e]

\* fetchWithRetry(path, options, retries - 1, Math.min(delayMs * 1.5, 10000))
Retry(ft) ==
  [ft EXCEPT !.pc = "fetch", !.retries = @ - 1,
             !.delayMs = Min((ft.delayMs * 3) \div 2, MaxDelayMs),
             !.requests = @ + 1]

ClickIdle ==
  [pc |-> "idle", btn |-> 0, name |-> <<>>, bidderId |-> <<>>,
   sent |-> 0, alerts |-> 0]

\* the page after its script is read: buttons holds the disabled flag of the
\* Bid button of every rendering of the card, the last one being on the page
PageOpen ==
  [pc |-> "open", refreshDisabled |-> FALSE, rendered |-> FALSE,
   buttons |-> <<>>, refresh |-> FetcherOff, reload |-> FetcherOff,
   call |-> FetcherOff, click |-> ClickIdle,
   loads |-> 0, clicks |-> 0, patches |-> 0, bidsStored |-> 0]

Fetchers == {"refresh", "reload", "call"}

\* load() is called: Refresh is disabled and /health is fetched
BeginLoad(p, f) ==
  [p EXCEPT !.refreshDisabled = TRUE,
            ![f] = [FetcherOff EXCEPT !.pc = "health"],
            !.loads = IF f = "refresh" THEN @ + 1 ELSE @]

\* finally of the click handler
EndClick(p) ==
  [p EXCEPT !.buttons[p.click.btn] = FALSE, !.click.pc = "done"]

\* finally of load(); the click handler that awaited it goes on to its own
EndLoad(p, f) ==
  LET q == [p EXCEPT !.refreshDisabled = FALSE]
  IN IF f = "reload" THEN EndClick(q) ELSE q

\* renderItems(items): a new card, its button disabled unless 'Available'
Render(p, list) ==
  IF list = "none" THEN [p EXCEPT !.rendered = FALSE]
  ELSE [p EXCEPT !.rendered = TRUE,
                 !.buttons = Append(@, list # "Available")]

\* catch of load(): the cards give way to the error text
ShowError(p) == [p EXCEPT !.rendered = FALSE]

\* an attempt of fetcher f ends with e (and with list, when e is NoError)
Settle(p, f, e, list) ==
  IF e = NoError
  THEN LET q == [p EXCEPT ![f].pc = "ok"]
       IN IF f = "call" THEN q ELSE EndLoad(Render(q, list), f)
  ELSE LET ft == AfterFailure(p[f], e)
           q  == [p EXCEPT ![f] = ft]
       IN IF ft.pc = "failed" /\ f # "call" THEN EndLoad(ShowError(q), f)
          ELSE q

BidFailed_Resend(p, e, served) ==
  LET q == [p EXCEPT !.bidsStored = IF served THEN @ + 1 ELSE @]
  IN IF isTransient(e) /\ p.click.sent < 2
     THEN [q EXCEPT !.click.sent = @ + 1, !.patches = @ + 1]
     ELSE EndClick([q EXCEPT !.click.alerts = @ + 1])

\* bidItem threw e: alert(e.message), then finally
BidFailed(p, e, served) ==
  EndClick([p EXCEPT !.click.alerts = @ + 1,
                     !.bidsStored = IF served THEN @ + 1 ELSE @])

\* bidItem returned: load() is called and awaited
BidSucceeded(p) ==
  BeginLoad([p EXCEPT !.click.pc = "reloading", !.bidsStored = @ + 1],
            "reload")

\* what the page's steps leave alone
notPage == <<disk, req, clock, started, ALLOW_ADD, uuids, sync>>

\* load() at the end of the script
Boot ==
  /\ page.pc = "open" /\ page.loads = 0
  /\ page' = BeginLoad(page, "refresh")
  /\ UNCHANGED notPage

\* click on Refresh
RefreshClick ==
  /\ page.pc = "open" /\ page.loads > 0 /\ page.loads < MaxLoads
  /\ ~page.refreshDisabled
  /\ page.refresh.pc \in {"ok", "failed"}
  /\ page' = BeginLoad(page, "refresh")
  /\ UNCHANGED notPage

\* the fetch of /health settles, either way: fetchWithRetry is called
HealthSettles(f) ==
  /\ page[f].pc = "health"
  /\ page' = [page EXCEPT ![f] = CallFetchWithRetry(LoadRetries)]
  /\ UNCHANGED notPage

\* the network ends the attempt
FetchSettles(f, e, list) ==
  /\ page[f].pc = "fetch"
  /\ (e # NoError \/ f = "call") => list = "none"
  /\ page' = Settle(page, f, e, list)
  /\ UNCHANGED notPage

\* the timer of fetchJSON aborts the attempt
FetchTimeout(f) ==
  /\ page[f].pc = "fetch"
  /\ page' = Settle(page, f, AbortError, "none")
  /\ UNCHANGED notPage

\* sleep(delayMs) is over
Wake(f) ==
  /\ page[f].pc = "sleep"
  /\ page' = [page EXCEPT ![f] = Retry(@)]
  /\ UNCHANGED notPage

\* texts of the two inputs of the card
Texts == {<<>>, <<" ">>, <<" ", "u", " ">>}

\* click on the Bid button of the card on the page
Click(name, bidderId) ==
  /\ page.pc = "open" /\ page.rendered
  /\ ~page.buttons[Len(page.buttons)]
  /\ page.click.pc \in {"idle", "done"}
  /\ page.clicks < MaxClicks
  /\ LET btn  == Len(page.buttons)
         base == [ClickIdle EXCEPT !.btn = btn, !.name = Trim(name),
                                   !.bidderId = Trim(bidderId)]
     IN IF Trim(name) = <<>> \/ Trim(bidderId) = <<>>
        THEN page' = [page EXCEPT !.clicks = @ + 1,
                                  !.click = [base EXCEPT !.pc = "done",
                                                         !.alerts = 1]]
        ELSE page' = [page EXCEPT !.clicks = @ + 1,
                                  !.patches = @ + 1,
                                  !.buttons[btn] = TRUE,
                                  !.click = [base EXCEPT !.pc = "bidding",
                                                         !.sent = 1]]
  /\ UNCHANGED notPage

\* the network ends the PATCH
BidSettles(e, served) ==
  /\ page.pc = "open" /\ page.click.pc = "bidding"
  /\ served \in Served(e)
  /\ page' = IF e = NoError THEN BidSucceeded(page)
             ELSE BidFailed(page, e, served)
  /\ UNCHANGED notPage

\* the timer of fetchJSON aborts the PATCH
BidTimeout(served) ==
  /\ page.pc = "open" /\ page.click.pc = "bidding"
  /\ page' = BidFailed(page, AbortError, served)
  /\ UNCHANGED notPage

\* the page is open, or fetchWithRetry is called on its own
InitPage ==
  /\ disk = MissingFile
  /\ req = [r \in Reqs |-> Idle]
  /\ clock = 2
  /\ started = 0
  /\ ALLOW_ADD = FALSE
  /\ uuids = 0
  /\ sync = SyncOff
  /\ page \in {PageOpen}
       \cup { [PageOpen EXCEPT !.pc = "helper",
                               !.call = CallFetchWithRetry(n)] :
                n \in 0..MaxRetries }

NextPage ==
  \/ Boot
  \/ RefreshClick
  \/ \E f \in Fetchers : HealthSettles(f)
  \/ \E f \in Fetchers, e \in Outcomes, list \in Lists : FetchSettles(f, e, list)
  \/ \E f \in Fetchers : FetchTimeout(f)
  \/ \E f \in Fetchers : Wake(f)
  \/ \E name \in Texts, bidderId \in Texts : Click(name, bidderId)
  \/ \E e \in BidOutcomes, served \in BOOLEAN : BidSettles(e, served)
  \/ \E served \in BOOLEAN : BidTimeout(served)

SpecPage == InitPage /\ [][NextPage]_vars

\* what the page itself makes happen: its script runs and its timers fire.
\* Nothing obliges the network to answer.
PageFairness ==
  /\ WF_vars(Boot)
  /\ \A f \in Fetchers : WF_vars(FetchTimeout(f)) /\ WF_vars(Wake(f))
  /\ WF_vars(\E served \in BOOLEAN : BidTimeout(served))

SpecPageFair == SpecPage /\ PageFairness

----------------------------------------------------------------------------
(* Type invariant *)

TypeOK ==
  /\ disk.kind \in {"missing", "corrupt", "noitems", "ok"}
  /\ clock \in 0..MaxClock
  /\ started \in 0..MaxRequests
  /\ \A r \in Reqs : req[r].pc \in {"idle", "load", "enoent", "save", "done"}
  /\ sync.pc \in {"off", "start", "done"}
  /\ page.pc \in {"off", "open", "helper"}

----------------------------------------------------------------------------
(* Vocabulary of the properties *)

IsPrefix(s, t) == Len(s) <= Len(t) /\ SubSeq(t, 1, Len(s)) = s

\* a string with nothing but blanks in it (the empty string included)
IsBlank(text) == \A i \in 1..Len(text) : text[i] = " "

\* request r takes a step
Steps(r) == req'[r] # req[r]

\* request r reads the file in this step, and runs the rest of its handler
\* on what it read
ReadsFile(r) == req[r].pc = "load" /\ disk.kind # "missing" /\ req'[r].pc # "load"

\* request r found no file, and in this step creates it and runs the rest of
\* its handler on the empty document
CreatesFile(r) == req[r].pc = "enoent" /\ req'[r].pc # "enoent"

\* request r's saveDB lands in this step
Saves(r) == req[r].pc = "save" /\ req'[r].pc = "done"

\* nothing was written to the file between r's read of it and now
Undisturbed(r) ==
  IF req[r].pc = "enoent" THEN disk.kind = "missing"
  ELSE disk.kind # "missing" /\ Stored = req[r].loaded

PriceFormula(item) ==
  item.currentPrice = item.originalPrice + BID_STEP * Len(item.bids)

----------------------------------------------------------------------------
\* C1: every stored item has currentPrice = originalPrice + BID_STEP * the
\* number of its bids, in every state the requests can lead to.
C1_PriceFollowsBids ==
  \A k \in 1..Len(Stored) : PriceFormula(Stored[k])

C1_Witness ==
  \E k \in 1..Len(Stored) :
    /\ Len(Stored[k].bids) = 2
    /\ Stored[k].currentPrice = Stored[k].originalPrice + 2 * BID_STEP

----------------------------------------------------------------------------
\* C2 as stated: a bid with valid identity on a stored item whose status is
\* anything but 'Available' (the empty status included) is answered with an
\* error and is not written.
C2_Original ==
  [][\A r \in Reqs :
       (req[r].op = "bid" /\ ReadsFile(r)) =>
         LET k == Find(Stored, req[r].id)
         IN (k # 0 /\ Stored[k].status # "Available") =>
              /\ req'[r].pc = "done"
              /\ req'[r].code >= 400
              /\ disk' = disk]_vars

\* C2 as amended: a bid with valid identity on a stored item whose status is
\* non-empty and not 'Available' is answered 400, writes nothing and leaves
\* the file as it was; on an empty status the bid goes ahead.
C2_RefusedUnlessAvailable ==
  [][\A r \in Reqs :
       (req[r].op = "bid" /\ ReadsFile(r)) =>
         LET k == Find(Stored, req[r].id)
         IN /\ (k # 0 /\ Stored[k].status \notin {"Available", ""}) =>
                 /\ req'[r].pc = "done"
                 /\ req'[r].code = 400
                 /\ req'[r].writes = req[r].writes
                 /\ disk' = disk
            /\ (k # 0 /\ Stored[k].status = "") => req'[r].pc = "save"]_vars

C2_Witness ==
  \E r \in Reqs :
    /\ req[r].pc = "done" /\ req[r].op = "bid" /\ req[r].id = "a1"
    /\ req[r].code = 400 /\ req[r].reads = 1 /\ req[r].writes = 0
    /\ Find(Stored, "a1") # 0
    /\ Stored[Find(Stored, "a1")].status = "Sold out"
    /\ Stored[Find(Stored, "a1")].bids = <<>>

----------------------------------------------------------------------------
\* C3: a bid whose name (its user field when it has no name) or whose
\* bidderId is empty or all blanks is answered 400 before the file is read:
\* it reads nothing, writes nothing, and the file is as it was.
BlankIdentity(input) ==
  \/ IF input.name.given THEN IsBlank(input.name.text)
     ELSE IF input.user.given THEN IsBlank(input.user.text) ELSE TRUE
  \/ IF input.bidderId.given THEN IsBlank(input.bidderId.text) ELSE TRUE

C3_BlankIdentityRejected ==
  [][\A r \in Reqs :
       (Steps(r) /\ req'[r].op = "bid" /\ BlankIdentity(req'[r].input)) =>
         /\ req'[r].pc = "done"
         /\ req'[r].code = 400
         /\ req'[r].reads = 0 /\ req'[r].writes = 0
         /\ disk' = disk]_vars

C3_Witness ==
  \E r \in Reqs :
    /\ req[r].pc = "done" /\ req[r].op = "bid" /\ req[r].code = 400
    /\ req[r].input.name = Str(<<"s">>) /\ req[r].input.bidderId = Str(<<" ">>)
    /\ req[r].id = "a1" /\ Find(Stored, "a1") # 0
    /\ req[r].reads = 0

----------------------------------------------------------------------------
\* C4: a bid that is accepted writes the document it loaded with one change:
\* the item it names has currentPrice raised by exactly BID_STEP, one bid
\* {name, bidderId, amount} added at the end of bids with amount equal to the
\* new currentPrice, and lastBidder set to that bidder; the whole item set is
\* written and the updated item is returned.  When nothing was written in
\* between, that is the change of the stored item.  Two bids in a row on the
\* item that starts at 500000 give 600000 and then 700000 with two bids.
C4_Scenario ==
  \A k \in 1..Len(Stored) :
    Stored[k].id = "a1" =>
      /\ Len(Stored[k].bids) = 1 =>
           Stored[k].currentPrice = 600000 /\ Stored[k].bids[1].amount = 600000
      /\ Len(Stored[k].bids) = 2 =>
           Stored[k].currentPrice = 700000 /\ Stored[k].bids[2].amount = 700000

C4_Step ==
  \A r \in Reqs :
    (req[r].op = "bid" /\ Saves(r)) =>
      LET was == req[r].loaded
          k   == Find(was, req[r].id)
      IN /\ k # 0
         /\ was[k].status \in {"Available", ""}
         /\ disk'.kind = "ok"
         /\ Len(disk'.items) = Len(was)
         /\ \A j \in 1..Len(was) : j # k => disk'.items[j] = was[j]
         /\ LET new == disk'.items[k]
                n   == Len(new.bids)
                who == [name |-> req[r].bidderName, bidderId |-> req[r].bidderID]
            IN /\ new.currentPrice = was[k].currentPrice + BID_STEP
               /\ n = Len(was[k].bids) + 1
               /\ SubSeq(new.bids, 1, n - 1) = was[k].bids
               /\ new.bids[n].name = who.name
               /\ new.bids[n].bidderId = who.bidderId
               /\ new.bids[n].amount = new.currentPrice
               /\ who.name # <<>> /\ who.name[1] # " " /\ who.name[Len(who.name)] # " "
               /\ who.bidderId # <<>> /\ who.bidderId[1] # " "
               /\ who.bidderId[Len(who.bidderId)] # " "
               /\ new.lastBidder = {who}
               /\ [new EXCEPT !.currentPrice = was[k].currentPrice,
                              !.bids = was[k].bids,
                              !.lastBidder = was[k].lastBidder] = was[k]
               /\ req'[r].code = 200
               /\ req'[r].body = <<new>>
               /\ Undisturbed(r) =>
                    new.currentPrice = Stored[k].currentPrice + BID_STEP

C4_BidEffect == []C4_Scenario /\ [][C4_Step]_vars

C4_Witness ==
  \E r \in Reqs, k \in 1..Len(Stored) :
    /\ Stored[k].id = "a1"
    /\ Len(Stored[k].bids) = 2
    /\ Stored[k].bids[1].name = <<"s">> /\ Stored[k].bids[1].bidderId = <<"u">>
    /\ Stored[k].bids[2].name = <<"m">> /\ Stored[k].bids[2].bidderId = <<"w">>
    /\ Stored[k].lastBidder = {[name |-> <<"m">>, bidderId |-> <<"w">>]}
    /\ req[r].pc = "done" /\ req[r].op = "bid" /\ req[r].code = 200
    /\ req[r].body = <<Stored[k]>>

----------------------------------------------------------------------------
\* two finished bids on one item that were both accepted at the same price
RacedPair(r1, r2) ==
  /\ r1 # r2
  /\ req[r1].pc = "done" /\ req[r1].op = "bid" /\ req[r1].code = 200
  /\ req[r2].pc = "done" /\ req[r2].op = "bid" /\ req[r2].code = 200
  /\ req[r1].id = req[r2].id
  /\ req[r1].body[1].currentPrice = req[r2].body[1].currentPrice

\* C5 as stated: when two concurrent bids on one item have both read the
\* pre-bid price, both computed the same new price and both been saved, the
\* stored currentPrice differs from originalPrice + BID_STEP * length(bids).
C5_Original ==
  \A r1, r2 \in Reqs :
    RacedPair(r1, r2) =>
      \E k \in 1..Len(Stored) :
        Stored[k].id = req[r1].id /\ ~PriceFormula(Stored[k])

\* C5 as amended: two concurrent bids on one item can both read the pre-bid
\* price, both compute the same new price and both be answered 200, but each
\* appends to its own copy of the document and the later save replaces the
\* earlier one: the stored item keeps currentPrice = originalPrice +
\* BID_STEP * length(bids), and one of the two accepted bids is not stored.
C5_RaceLosesBidKeepsFormula ==
  /\ \A r1, r2 \in Reqs :
       ( /\ r1 # r2
         /\ req[r1].pc = "save" /\ req[r1].op = "bid"
         /\ req[r2].pc = "save" /\ req[r2].op = "bid"
         /\ req[r1].id = req[r2].id
         /\ req[r1].loaded = req[r2].loaded ) =>
           LET k  == Find(req[r1].loaded, req[r1].id)
               n  == Len(req[r1].loaded[k].bids) + 1
               i1 == req[r1].db[k]
               i2 == req[r2].db[k]
           IN /\ i1.currentPrice = req[r1].loaded[k].currentPrice + BID_STEP
              /\ i2.currentPrice = i1.currentPrice
              /\ Len(i1.bids) = n /\ Len(i2.bids) = n
              /\ i1.bids[n].amount = i2.bids[n].amount
              /\ SubSeq(i1.bids, 1, n - 1) = req[r1].loaded[k].bids
              /\ SubSeq(i2.bids, 1, n - 1) = req[r1].loaded[k].bids
              /\ i1.bids[n].name = req[r1].bidderName
              /\ i2.bids[n].name = req[r2].bidderName
              /\ PriceFormula(i1) /\ PriceFormula(i2)
  /\ \A r1, r2 \in Reqs :
       RacedPair(r1, r2) =>
         \A k \in 1..Len(Stored) :
           Stored[k].id = req[r1].id => PriceFormula(Stored[k])

C5_Witness ==
  \E r1, r2 \in Reqs, k \in 1..Len(Stored) :
    /\ RacedPair(r1, r2)
    /\ req[r1].body[1].lastBidder # req[r2].body[1].lastBidder
    /\ req[r1].body[1].currentPrice = 600000
    /\ Stored[k].id = req[r1].id
    /\ Stored[k].currentPrice = 600000
    /\ Len(Stored[k].bids) = 1

----------------------------------------------------------------------------
\* an item stored before the step and after it has its bids extended
BidsKept ==
  \A k \in 1..Len(Stored) :
    \A j \in 1..Len(Stored') :
      Stored'[j].id = Stored[k].id => IsPrefix(Stored[k].bids, Stored'[j].bids)

\* every item stored before the step is stored after it
ItemsKept ==
  \A k \in 1..Len(Stored) :
    \E j \in 1..Len(Stored') : Stored'[j].id = Stored[k].id

\* C6 as stated: under any sequence or interleaving of requests, the bids
\* stored for an item before a write are a prefix of its bids after it.
C6_Original == [][BidsKept]_vars

\* C6 as amended: a write by a request that still finds the file as it read it
\* (no other write landed between its load and its save) leaves every stored
\* item's bids a prefix of its bids after the write; when another write did
\* land in between, the later save replaces it and a stored bid can be lost.
C6_AppendOnlyUndisturbed ==
  [][\A r \in Reqs :
       ((Saves(r) \/ CreatesFile(r)) /\ Undisturbed(r)) =>
         ItemsKept /\ BidsKept]_vars

C6_Witness ==
  \E r \in Reqs, k \in 1..Len(Stored) :
    /\ Len(Stored[k].bids) = 2
    /\ req[r].pc = "done" /\ req[r].op = "bid" /\ req[r].code = 200
    /\ req[r].body = <<Stored[k]>>
    /\ IsPrefix(<<Stored[k].bids[1]>>, Stored[k].bids)

----------------------------------------------------------------------------
\* every item stored before the step is stored after it at no lower a price
PriceKept ==
  \A k \in 1..Len(Stored) :
    \A j \in 1..Len(Stored') :
      Stored'[j].id = Stored[k].id =>
        Stored'[j].currentPrice >= Stored[k].currentPrice

\* an item enters the store priced at its originalPrice
EntersAtOriginalPrice ==
  \A r \in Reqs :
    (req[r].op = "create" /\ Saves(r)) =>
      LET it == Stored'[Len(Stored')]
      IN it.currentPrice = it.originalPrice /\ it.bids = <<>>

\* C7 as stated: under any sequence or interleaving of requests, every write
\* leaves each existing item's currentPrice at or above its stored value.
C7_Original == [][PriceKept /\ EntersAtOriginalPrice]_vars

\* C7 as amended: an item is stored first with currentPrice = originalPrice,
\* and a write by a request that still finds the file as it read it leaves
\* each existing item's currentPrice at or above its stored value; a save that
\* lands after another request's later save puts the older, lower price back.
C7_PriceKeptUndisturbed ==
  [][ /\ EntersAtOriginalPrice
      /\ \A r \in Reqs : (Saves(r) /\ Undisturbed(r)) => PriceKept ]_vars

C7_Witness ==
  \E r \in Reqs, k \in 1..Len(Stored) :
    /\ Stored[k].currentPrice = Stored[k].originalPrice + 2 * BID_STEP
    /\ req[r].pc = "done" /\ req[r].op = "bid" /\ req[r].code = 200
    /\ req[r].body = <<Stored[k]>>

----------------------------------------------------------------------------
Count(seq, x) == Cardinality({i \in 1..Len(seq) : seq[i] = x})

SameItems(a, b) ==
  /\ Len(a) = Len(b)
  /\ \A i \in 1..Len(a) : Count(a, a[i]) = Count(b, a[i])

SortedDesc(seq) ==
  \A i, j \in 1..Len(seq) : i < j => seq[i].createdAt >= seq[j].createdAt

\* C8: GET /api/items answers 200 with exactly the stored items, ordered by
\* createdAt descending, and leaves the stored items and their order as they
\* were.
C8_ListReadOnly ==
  [][\A r \in Reqs :
       (req[r].op = "list" /\ (ReadsFile(r) \/ CreatesFile(r))) =>
         /\ req'[r].code = 200
         /\ SameItems(req'[r].body, Stored)
         /\ SortedDesc(req'[r].body)
         /\ Stored' = Stored]_vars

----------------------------------------------------------------------------
\* C9: a load that finds the file missing, not JSON, or JSON without an items
\* array gives the empty item list and no error: the list is answered 200 with
\* an empty array, a get or a bid on whatever id is answered 404 (and a
\* creation goes on with the new item alone).
C9_EmptyOnBadFile ==
  [][\A r \in Reqs :
       ((ReadsFile(r) /\ disk.kind \in {"corrupt", "noitems"}) \/ CreatesFile(r)) =>
         /\ req'[r].code # 500
         /\ req[r].op = "list" =>
              req'[r].pc = "done" /\ req'[r].code = 200 /\ req'[r].body = <<>>
         /\ req[r].op \in {"get", "bid"} =>
              req'[r].pc = "done" /\ req'[r].code = 404
         /\ req[r].op = "create" =>
              /\ req'[r].pc = "save"
              /\ req'[r].loaded = <<>>
              /\ req'[r].db = req[r].newItem]_vars

C9_Witness ==
  \E r1, r2 \in Reqs :
    /\ disk.kind = "corrupt"
    /\ req[r1].pc = "done" /\ req[r1].op = "list" /\ req[r1].reads = 1
    /\ req[r1].code = 200 /\ req[r1].body = <<>>
    /\ req[r2].pc = "done" /\ req[r2].op = "bid" /\ req[r2].reads = 1
    /\ req[r2].code = 404

----------------------------------------------------------------------------
\* C10: while ALLOW_ADD is off, POST /api/items is answered 403 whatever the
\* body, before the file is read: it reads nothing, writes nothing, and the
\* stored items are as they were.
C10_CreationDisabled ==
  [][\A r \in Reqs :
       (Steps(r) /\ req'[r].op = "create" /\ ~ALLOW_ADD) =>
         /\ req'[r].pc = "done"
         /\ req'[r].code = 403
         /\ req'[r].reads = 0 /\ req'[r].writes = 0
         /\ disk' = disk]_vars

C10_Witness ==
  \E r \in Reqs :
    /\ ~ALLOW_ADD
    /\ req[r].pc = "done" /\ req[r].op = "create" /\ req[r].code = 403
    /\ req[r].input.name = Str(<<"v", " ">>)
    /\ Len(Stored) = 2


----------------------------------------------------------------------------
\* the handler of request r runs in this step, on the file it read or on the
\* empty document it wrote when it found no file
Handles(r) == ReadsFile(r) \/ CreatesFile(r)

\* C11: GET /api/items/:id answers 200 with the stored item of that id when
\* one is stored and 404 otherwise; a bid with valid identity on an id no
\* stored item has is answered 404 and leaves every stored item as it was.
C11_FoundOr404 ==
  [][\A r \in Reqs :
       (Handles(r) /\ req[r].op \in {"get", "bid"}) =>
         LET k == Find(Stored, req[r].id)
         IN /\ (req[r].op = "get" /\ k # 0) =>
                 /\ req'[r].pc = "done" /\ req'[r].code = 200
                 /\ req'[r].body = <<Stored[k]>>
                 /\ Stored' = Stored
            /\ (req[r].op = "get" /\ k = 0) =>
                 /\ req'[r].pc = "done" /\ req'[r].code = 404
                 /\ Stored' = Stored
            /\ (req[r].op = "bid" /\ k = 0) =>
                 /\ req'[r].pc = "done" /\ req'[r].code = 404
                 /\ Stored' = Stored]_vars

----------------------------------------------------------------------------
\* C12: in every state of the store, an item with bids has lastBidder equal
\* to the name and bidderId of the last of its bids, and an item with no bids
\* has no lastBidder.
C12_LastBidderIsLastBid ==
  \A k \in 1..Len(Stored) :
    LET item == Stored[k]
        n    == Len(item.bids)
    IN IF n = 0 THEN item.lastBidder = {}
       ELSE item.lastBidder = {[name     |-> item.bids[n].name,
                                bidderId |-> item.bids[n].bidderId]}

C12_Witness ==
  \E k, j \in 1..Len(Stored) :
    /\ Len(Stored[k].bids) = 2
    /\ Stored[k].bids[1].name # Stored[k].bids[2].name
    /\ Stored[k].lastBidder = {[name     |-> Stored[k].bids[2].name,
                                bidderId |-> Stored[k].bids[2].bidderId]}
    /\ Stored[j].bids = <<>> /\ Stored[j].lastBidder = {}

----------------------------------------------------------------------------
\* C18: in every state of the store, the i-th bid of an item (counting from
\* 1) has amount = originalPrice + i * BID_STEP, so the amounts rise strictly
\* along the list and the last bid's amount is the item's currentPrice,
\* whatever the order and overlap of the requests.
C18_BidAmounts ==
  \A k \in 1..Len(Stored) :
    LET item == Stored[k]
        n    == Len(item.bids)
    IN /\ \A i \in 1..n :
            item.bids[i].amount = item.originalPrice + i * BID_STEP
       /\ \A i \in 1..n : \A j \in 1..n :
            i < j => item.bids[i].amount < item.bids[j].amount
       /\ n > 0 => item.bids[n].amount = item.currentPrice

C18_Witness ==
  \E k \in 1..Len(Stored) :
    /\ Stored[k].originalPrice = 500000
    /\ Len(Stored[k].bids) = 2
    /\ Stored[k].bids[1].amount = 600000
    /\ Stored[k].bids[2].amount = 700000
    /\ Stored[k].currentPrice = 700000

----------------------------------------------------------------------------
\* what no request is meant to change of a stored item
Frame(item) ==
  [id |-> item.id, status |-> item.status, originalPrice |-> item.originalPrice,
   name |-> item.name, createdAt |-> item.createdAt]

\* every item stored before the step is stored after it, in its place, with
\* its id, status, originalPrice, name and createdAt
FrameKept ==
  /\ Len(Stored) <= Len(Stored')
  /\ \A k \in 1..Len(Stored) : Frame(Stored'[k]) = Frame(Stored[k])

\* the save of r's bid changes no item but the one the bid is on
OthersKept(r) ==
  /\ Len(Stored) = Len(Stored')
  /\ \A k \in 1..Len(Stored) :
       k # Find(Stored, req[r].id) => Stored'[k] = Stored[k]

----------------------------------------------------------------------------
Ids(items) == {items[k].id : k \in 1..Len(items)}

\* the item of a creation request is the one its body describes
Describes(item, input) ==
  /\ item.currentPrice = item.originalPrice
  /\ item.bids = <<>>
  /\ ~input.status.given => item.status = "Available"
  /\ input.originalPrice.kind = "num" => item.originalPrice = input.originalPrice.val
  /\ ~IsBlank(item.name)

\* C14: with creation enabled, POST /api/items with a blank or missing name
\* is answered 400 without reading or writing the file; with a name, the
\* handler appends to the document it loaded exactly one item, whose id no
\* loaded and no stored item has, with currentPrice = originalPrice, no bids
\* and status 'Available' when the body gives none, and saves that document:
\* the items it loaded are unchanged, and when no other write landed since
\* its load the store is the store before the save plus the new item.
C14_CreateAppendsOne ==
  [][\A r \in Reqs :
       /\ (Free(r) /\ Steps(r) /\ req'[r].op = "create" /\ ALLOW_ADD) =>
            IF ~req'[r].input.name.given \/ IsBlank(req'[r].input.name.text)
            THEN /\ req'[r].pc = "done" /\ req'[r].code = 400
                 /\ req'[r].reads = 0 /\ req'[r].writes = 0
                 /\ disk' = disk
            ELSE req'[r].pc = "load" /\ disk' = disk
       /\ (Handles(r) /\ req[r].op = "create") =>
            LET rq == req'[r]
                n  == Len(rq.loaded)
            IN /\ rq.pc = "save"
               /\ Len(rq.db) = n + 1
               /\ SubSeq(rq.db, 1, n) = rq.loaded
               /\ rq.db[n + 1].id \notin Ids(rq.loaded) \cup Ids(Stored)
               /\ Describes(rq.db[n + 1], rq.input)
               /\ rq.body = <<rq.db[n + 1]>>
       /\ (Saves(r) /\ req[r].op = "create") =>
            /\ disk' = Doc(req[r].db)
            /\ req'[r].code = 200 /\ req'[r].body = req[r].body
            /\ req[r].body[1].id \notin Ids(Stored)
            /\ Undisturbed(r) => Stored' = Stored \o req[r].body]_vars

C14_Witness ==
  \E r \in Reqs :
    /\ ALLOW_ADD
    /\ req[r].pc = "done" /\ req[r].op = "create" /\ req[r].code = 200
    /\ ~req[r].input.status.given
    /\ Len(Stored) = 3
    /\ Stored[1].id = "a1" /\ Stored[2].id = "a2"
    /\ Stored[3] = req[r].body[1]
    /\ Stored[3].status = "Available"
    /\ Stored[3].currentPrice = 500000 /\ Stored[3].originalPrice = 500000
    /\ Stored[3].bids = <<>>

----------------------------------------------------------------------------
\* the row has a name: a cell under one of the name headers is not blank
HasName(r) == ~IsBlank(r.name) \/ ~IsBlank(r.itemName)

NamedRows == SelectSeq(sync.rows, HasName)

\* C17: once the sync has run, whatever the file held before, the store
\* holds one item per sheet row that has a name, in sheet order; each item
\* has no bids, a status in {Available, Hold, Sold out} (the row's status
\* when it is one of these, Available otherwise), a non-empty id (the row's
\* trimmed id when it has one, a generated one otherwise), and currentPrice
\* = originalPrice whenever the row's current price is absent, zero or not
\* a number.
C17_SyncReplacesStore ==
  sync.pc = "done" =>
    /\ disk.kind = "ok"
    /\ Len(Stored) = Len(NamedRows)
    /\ \A k \in 1..Len(Stored) :
         LET item == Stored[k]
             r    == NamedRows[k]
         IN /\ item.bids = <<>> /\ item.lastBidder = {}
            /\ item.name = Trim(IF ~IsBlank(r.name) THEN r.name ELSE r.itemName)
            /\ item.status \in VALID_STATUS
            /\ IF Trim(r.status) \in VALID_STATUS
               THEN item.status = Trim(r.status)
               ELSE item.status = <<"Available">>
            /\ item.id # <<>> /\ ~IsBlank(item.id)
            /\ IF IsBlank(r.id) THEN item.id[1] = "item-"
               ELSE item.id = Trim(r.id)
            /\ (IsBlank(r.currentPrice) \/ r.currentPrice \in {<<"0">>, <<"x">>})
                 => item.currentPrice = item.originalPrice

\* a file with bids has been replaced from a sheet of a named row without id
\* or valid status, priced under the "price" header, and a row without name
C17_Witness ==
  /\ sync.pc = "done"
  /\ Len(sync.rows) = 2
  /\ ~HasName(sync.rows[1])
  /\ sync.rows[2].status = <<"hold">>
  /\ Len(Stored) = 1
  /\ Stored[1].id = <<"item-", "n1">>
  /\ Stored[1].name = <<"v">>
  /\ Stored[1].status = <<"Available">>
  /\ Stored[1].originalPrice = 5 /\ Stored[1].currentPrice = 10
  /\ Stored[1].bids = <<>>

----------------------------------------------------------------------------
\* the failures the retry is meant for: abort or timeout, network error,
\* 429 / 502 / 503 / 504
TransientFailure(e) ==
  \/ e.name \in {"AbortError", "TypeError"}
  \/ e.keyword
  \/ e.status \in {429, 502, 503, 504}

Running(ft) == ft.pc \in {"health", "fetch", "sleep"}
Ended(ft) == ft.pc \in {"ok", "failed"}

\* at most retries + 1 requests; the waits start at 2000 ms, each is 1.5
\* times the one before or the cap, and none exceeds 10000 ms; a wait follows
\* a transient failure only
RetryBounded ==
  \A f \in Fetchers :
    LET ft == page[f]
    IN /\ ft.requests <= ft.arg + 1
       /\ f \in {"refresh", "reload"} => ft.requests <= 4
       /\ Len(ft.delays) <= ft.arg
       /\ \A i \in 1..Len(ft.delays) :
            /\ ft.delays[i] <= 10000
            /\ i = 1 => ft.delays[i] = 2000
            /\ i > 1 => ft.delays[i] = Min((ft.delays[i - 1] * 3) \div 2, 10000)
       /\ ft.pc = "sleep" => TransientFailure(ft.err)

\* a request is sent at the call and after a wait, never otherwise; a failure
\* that is not transient ends the call at once; load() ends with Refresh
\* enabled
RetrySteps ==
  \A f \in Fetchers :
    LET ft == page[f]
        nx == page'[f]
    IN /\ (ft.pc = "fetch" /\ nx.pc = "sleep") =>
            nx.requests = ft.requests /\ Len(nx.delays) = Len(ft.delays) + 1
       /\ (ft.pc = "sleep" /\ nx # ft) =>
            nx.pc = "fetch" /\ nx.requests = ft.requests + 1
       /\ (ft.pc = "fetch" /\ nx.pc = "failed" /\ ~TransientFailure(nx.err)) =>
            nx.requests = ft.requests
       /\ (f # "call" /\ Running(ft) /\ Ended(nx)) => ~page'.refreshDisabled

\* every load() that was called ends
LoadTerminates ==
  \A f \in {"refresh", "reload"} : Running(page[f]) ~> Ended(page[f])

\* C16: fetchWithRetry(path, options, retries) sends at most retries + 1
\* requests (4 for the load of the list), retries only after a transient
\* failure, gives up at once on any other failure, waits 2000 ms first and
\* 1.5 times longer each time up to 10000 ms, and every load() ends, with the
\* Refresh button enabled.
C16_RetryBoundedAndLoadEnds ==
  /\ []RetryBounded
  /\ [][RetrySteps]_vars
  /\ LoadTerminates

----------------------------------------------------------------------------
\* the steps of the click handler: with both texts non-blank it disables its
\* button and sends one PATCH; with one of them blank it sends nothing and
\* disables nothing; load() is called by it only when the bid was accepted;
\* it ends with its button enabled
ClickSteps ==
  LET c  == page.click
      nc == page'.click
  IN /\ (page.clicks # page'.clicks /\ nc.name # <<>> /\ nc.bidderId # <<>>) =>
          /\ nc.pc = "bidding" /\ nc.sent = 1
          /\ page'.patches = page.patches + 1
          /\ page'.buttons[nc.btn]
     /\ (page.clicks # page'.clicks /\ (nc.name = <<>> \/ nc.bidderId = <<>>)) =>
          /\ nc.pc = "done" /\ nc.sent = 0
          /\ page'.patches = page.patches
          /\ page'.buttons = page.buttons
     /\ (page.clicks = page'.clicks) => nc.sent = c.sent
     /\ (~Running(page.reload) /\ Running(page'.reload)) =>
          /\ c.pc = "bidding" /\ nc.pc = "reloading"
          /\ nc.alerts = 0
          /\ page'.bidsStored = page.bidsStored + 1
     /\ (c.pc \in {"bidding", "reloading"} /\ nc.pc = "done") =>
          ~page'.buttons[nc.btn]

\* a click that sent its request ends
ClickTerminates ==
  (page.click.pc \in {"bidding", "reloading"}) ~> (page.click.pc = "done")

\* C15: a click on Bid with both identity fields non-blank disables the bid
\* control and sends one bid request, the list is reloaded only if the bid
\* succeeded, and the click always ends, with the control enabled, whether
\* the bid succeeded, failed or timed out; with a blank field no request is
\* sent and the control is not disabled.
C15_ClickDisablesSendsRestores ==
  /\ [][ClickSteps]_vars
  /\ ClickTerminates

----------------------------------------------------------------------------
\* C19: a click on Bid sends at most one PATCH, also when the PATCH times out
\* or fails with a transient status (only the load of the list is retried);
\* the requests that the retries add are not PATCHes, and the store gains at
\* most one bid per PATCH, so at most one bid per click.
C19_OnePatchPerClick ==
  /\ [](/\ page.click.sent <= 1
        /\ page.patches <= page.clicks
        /\ page.bidsStored <= page.patches)
  /\ [][/\ page'.patches # page.patches =>
             /\ page'.clicks = page.clicks + 1
             /\ page'.patches = page.patches + 1
        /\ page'.bidsStored # page.bidsStored =>
             /\ page'.bidsStored = page.bidsStored + 1
             /\ page.click.pc = "bidding" /\ page'.click.pc # "bidding"
        /\ \A f \in Fetchers :
             page'[f].requests # page[f].requests =>
               page'.patches = page.patches]_vars

\* a PATCH timed out after the server had stored its bid; the click is over
\* with one request sent, and the list has been reloaded with retries since
C19_Witness ==
  /\ page.click.pc = "done" /\ page.click.sent = 1 /\ page.click.alerts = 1
  /\ page.patches = 1 /\ page.bidsStored = 1
  /\ page.refresh.pc = "ok" /\ page.refresh.requests = 3

====
